---- MODULE Spec2Model ----
\* A model of BaseThoughtForgeClientSession (src/thoughtforge_client.py): the
\* constructor's try/except/finally, session initialisation, the update loop,
\* the debug relay and session teardown, with the server and the embedder's
\* callbacks as nondeterministic inputs.
\*
\* Numbers: motor and sensor values are floats in the program; here they are
\* integers in tenths (0.0 is 0, -0.3 is -3, 1.5 is 15).
\* None is the empty sequence, an integer i that may be None is <<i>>.
EXTENDS Integers, Sequences, FiniteSets, TLC

\* ---------------------------------------------------------------- bounds

\* The largest number of update ticks a run may begin.
MaxTicks == 2

\* ------------------------------------------------------- program constants

CURRENT_CLIENT_PARAMS_VERSION == 0

\* ------------------------------------------------------------------ values

None == << >>
Some(i) == << i >>

EmptyMap == [x \in {} |-> 0]

\* A sensor or motor declaration of the .params file: 'name' is one name or a
\* list of names.
Single(name) == [isList |-> FALSE, names |-> << name >>]
Multiple(names) == [isList |-> TRUE, names |-> names]

\* The declarations the configurations are drawn from: 'sensors' and 'motors'
\* of one .params file.
DeclChoices ==
    { [ sensors |-> << >>, motors |-> << >> ],
      [ sensors |-> << Single("pos") >>, motors |-> << Single("force") >> ],
      [ sensors |-> << Single("pos") >>,
        motors |-> << Multiple(<< "force", "torque" >>) >> ],
      [ sensors |-> << Multiple(<< "pos", "vel" >>) >>,
        motors |-> << Single("force") >> ] }

\* version: None when the key is missing from the file.
VersionChoices == { None, Some(0), Some(1) }

\* The name -> id maps a server may return.
SensorMapChoices == { EmptyMap, ("pos" :> 0), ("pos" :> 0) @@ ("vel" :> 1) }
MotorMapChoices == { EmptyMap, ("force" :> 0), ("force" :> 0) @@ ("torque" :> 2) }
BlockMapChoices == { EmptyMap, ("armA" :> 3) }
SessionIdChoices == { -1, 0 }

\* The order in which a map's names are iterated (the order of the server's
\* JSON object; dicts keep insertion order).
NameOrder == << "force", "torque", "pos", "vel", "armA" >>

\* What the embedder's update() may return: a dict of sensor name -> value.
SensorValues == { 15 }
SensorKeyChoices == { {}, {"pos"}, {"pos", "vel"}, {"bogus"} }

\* motor_dict of an /updateSim response: string keys, as JSON gives them.
MotorDictChoices ==
    { EmptyMap,
      ("0" :> -3) @@ ("7" :> 4),
      ("0" :> 4) @@ ("2" :> -3) }

\* int(key) for the keys above (line 194).
DigitValue == ("0" :> 0) @@ ("1" :> 1) @@ ("2" :> 2) @@ ("3" :> 3) @@ ("7" :> 7)
int(key) == DigitValue[key]

\* str(block_id) (lines 223-229).
str(i) == CHOOSE k \in DOMAIN DigitValue : DigitValue[k] = i

\* Faults a callback of the embedder, or a blocking request, may end with.
CallbackFaults == { "none", "CallbackError", "KeyboardInterrupt" }
TransportFaults == { "none", "ConnectionError", "KeyboardInterrupt" }
\* The same, for the requests and callbacks of the loop and of the teardown
\* (an interrupt there is handled like one inside update()).
LoopTransportFaults == { "none", "ConnectionError" }
NotificationFaults == { "none", "CallbackError" }

\* utils.safe_dict_get
safe_dict_get(dict, keyName, default) ==
    IF keyName \in DOMAIN dict THEN dict[keyName] ELSE default

\* ------------------------------------------------------------------- state

VARIABLES
    \* arguments of the constructor and the .params file
    client_params,          \* [loadable, version, sensors, motors, enable_debug]
    api_key,                \* TRUE when an API key is available
    \* the object's fields
    fields_defined,         \* lines 51-64 have run (the attributes exist)
    sim_t,
    session_id,
    sensor_name_map,
    motor_name_map,
    block_name_map,
    stop_requested,
    all_session_logs,
    sensor_value_history,
    motor_value_history,
    debug_data_history,
    debug_enabled,
    \* control
    pc,                     \* the constructor's position
    site,                   \* which _close_session() call is running
    pending,                \* the exception in flight, "none" when there is none
    next_motor_dict,        \* local of _start_sim
    named_sensor_dict,      \* local of _start_sim
    \* the world
    inflight,               \* requests sent and not yet answered
    sent,                   \* every request sent so far, in order
    \* observation
    n,                      \* counts of callbacks invoked and steps completed
    origFault,              \* the first exception raised in the try body
    faults,                 \* faults the embedder, the transport or the server
                            \* put in so far (raising callbacks, failing posts,
                            \* undecodable responses, unmapped sensor names)
    activeAtFault,          \* a session was open when origFault was raised
    outcome,                \* "running", "returned" or "raised"
    init_resp,              \* the /initSession response, None before it
    init_sid,               \* session_id as _initialize_session() left it
    update_arg,             \* the motor command of the last update() call
    lastResp,               \* the last /updateSim response received
    stop_at,                \* where the first stop_sim() call was made
    closeCalls,             \* calls of _close_session() so far
    first_close             \* the session as the first _close_session() left it

fields ==
    << fields_defined, sim_t, session_id, sensor_name_map, motor_name_map,
       block_name_map, stop_requested, all_session_logs, sensor_value_history,
       motor_value_history, debug_data_history, debug_enabled >>

config == << client_params, api_key >>
locals == << next_motor_dict, named_sensor_dict >>
ghost == << init_resp, init_sid, update_arg, lastResp, stop_at, activeAtFault >>

vars ==
    << config, fields, pc, site, pending, locals, inflight, sent, n, origFault,
       faults, outcome, ghost, closeCalls, first_close >>

\* nonOk is 1 once any /updateSim or /shutdownSession response was not ok.
NoCounts ==
    [ started |-> 0, updateCalls |-> 0, processed |-> 0, debug |-> 0,
      loopExits |-> 0, summaryStarted |-> 0, summary |-> 0, ended |-> 0,
      reset |-> 0, nonOk |-> 0 ]

\* A request as the transport sends it.
Request(path, sid, sensor_dict) ==
    [path |-> path, session_id |-> sid, sensor_dict |-> sensor_dict]

Count(path) == Cardinality({ i \in 1..Len(sent) : sent[i].path = path })

NoResp ==
    [ ok |-> TRUE, bad |-> "none", motor_dict |-> EmptyMap, tick |-> -1,
      debugging_data |-> None ]

Init ==
    /\ client_params \in
         { [ loadable |-> l, version |-> v, sensors |-> d.sensors,
             motors |-> d.motors, enable_debug |-> e ] :
           l \in BOOLEAN, v \in VersionChoices, d \in DeclChoices, e \in BOOLEAN }
    /\ api_key \in BOOLEAN
    /\ fields_defined = FALSE
    /\ sim_t = 0
    /\ session_id = None
    /\ sensor_name_map = EmptyMap
    /\ motor_name_map = EmptyMap
    /\ block_name_map = EmptyMap
    /\ stop_requested = FALSE
    /\ all_session_logs = << >>
    /\ sensor_value_history = << >>
    /\ motor_value_history = << >>
    /\ debug_data_history = << >>
    /\ debug_enabled = FALSE
    /\ pc = "start"
    /\ site = "none"
    /\ pending = "none"
    /\ next_motor_dict = EmptyMap
    /\ named_sensor_dict = EmptyMap
    /\ inflight = << >>
    /\ sent = << >>
    /\ init_resp = None
    /\ init_sid = None
    /\ stop_at = None
    /\ activeAtFault = FALSE
    /\ faults = 0
    /\ n = NoCounts
    /\ origFault = "none"
    /\ outcome = "running"
    /\ update_arg = EmptyMap
    /\ lastResp = NoResp
    /\ closeCalls = 0
    /\ first_close = None

\* An exception raised inside the try body (lines 31-67) reaches the except
\* clauses of lines 68-75.
Raise(kind) ==
    /\ pc' = "except"
    /\ pending' = kind
    /\ origFault' = kind
    /\ faults' = faults + 1

\* No exception: the statement that follows runs.
NoRaise == UNCHANGED << pending, origFault, faults >>

\* ------------------------------------------------- __init__, lines 31-64

Construct ==
    /\ pc = "start"
    /\ UNCHANGED << config, site, locals, inflight, sent, n, outcome, ghost,
                    closeCalls, first_close >>
    /\ IF ~client_params.loadable
       THEN /\ Raise("LoadError")
            /\ UNCHANGED fields
       ELSE IF client_params.version = None
               \/ client_params.version # Some(CURRENT_CLIENT_PARAMS_VERSION)
       THEN /\ Raise("VersionAssertion")
            /\ UNCHANGED fields
       ELSE IF ~api_key
       THEN /\ Raise("ApiKeyAssertion")
            /\ UNCHANGED fields
       ELSE /\ fields_defined' = TRUE
            /\ sim_t' = 0
            /\ session_id' = None
            /\ sensor_name_map' = EmptyMap
            /\ motor_name_map' = EmptyMap
            /\ stop_requested' = FALSE
            /\ all_session_logs' = << >>
            /\ sensor_value_history' = << >>
            /\ motor_value_history' = << >>
            /\ debug_data_history' = << >>
            /\ UNCHANGED << block_name_map, debug_enabled >>
            /\ pc' = "init_send"
            /\ NoRaise

\* ------------------------------------- _validate_sensors_motors, lines 90-115

\* A declaration counted once, whatever its 'name' holds.
TotalDeclared_ListAsOne(entries) == Len(entries)

\* Lines 96-101 and 106-111: a list-valued name counts once per element.
RECURSIVE TotalDeclared(_)
TotalDeclared(entries) ==
    IF entries = << >> THEN 0
    ELSE (IF Head(entries).isList THEN Len(Head(entries).names) ELSE 1)
         + TotalDeclared(Tail(entries))

validate_sensors_motors(params, sensor_map, motor_map) ==
    /\ Cardinality(DOMAIN sensor_map) = TotalDeclared(params.sensors)
    /\ Cardinality(DOMAIN motor_map) = TotalDeclared(params.motors)

\* ------------------------------------------ _initialize_session, lines 117-165

\* The fields of an /initSession response in the order lines 149-154 read them;
\* resp.bad names the first one whose decoding raises ("none": all decode).
InitFieldOrder ==
    << "json", "session_id", "motor_ids", "sensor_ids", "block_ids", "session_log" >>

IndexIn(seq, x) == CHOOSE i \in 1..Len(seq) : seq[i] = x

\* Field 'field' is decoded (and assigned) before the response's bad field stops
\* the parse.
Decoded(order, bad, field) ==
    bad = "none" \/ IndexIn(order, field) < IndexIn(order, bad)

InitResponses ==
    [ ok : {TRUE}, bad : {"none"} \cup { InitFieldOrder[i] : i \in 1..Len(InitFieldOrder) },
      session_id : SessionIdChoices, motor_ids : MotorMapChoices,
      sensor_ids : SensorMapChoices, block_ids : BlockMapChoices,
      session_log : {<< "msg" >>} ]
    \cup
    [ ok : {FALSE}, bad : {"none"}, session_id : {-1}, motor_ids : {EmptyMap},
      sensor_ids : {EmptyMap}, block_ids : {EmptyMap}, session_log : {<< >>} ]

\* A post that returns before the response of an /updateSim request is there.
AfterPost_NoWait(reader) == IF reader = "upd_wait" THEN "loop" ELSE reader

\* requests.post() blocks: the caller's next position is the one that reads the
\* response (lines 146, 188, 299).
AfterPost(reader) == reader

\* Lines 120-146: the request is built and posted. session_id is None here
\* (line 52), so line 121 does not run. The optional model_data body (lines
\* 124-131) is left out: it reaches the server only.
InitSend ==
    /\ pc = "init_send"
    /\ debug_enabled' = client_params.enable_debug
    /\ UNCHANGED << config, fields_defined, sim_t, session_id, sensor_name_map,
                    motor_name_map, block_name_map, stop_requested,
                    all_session_logs, sensor_value_history, motor_value_history,
                    debug_data_history, site, locals, n, outcome, ghost,
                    closeCalls, first_close >>
    /\ \E fault \in TransportFaults :
         IF fault # "none"
         THEN /\ Raise(fault)
              /\ UNCHANGED << inflight, sent >>
         ELSE /\ inflight' = Append(inflight, Request("/initSession", None, EmptyMap))
              /\ sent' = Append(sent, Request("/initSession", None, EmptyMap))
              /\ pc' = AfterPost("init_wait")
              /\ NoRaise

\* Line 204-210
process_session_logs(logs, session_logs) == logs \o session_logs

\* Line 156: the condition under which a decoded response still fails.
InitializationFailed(sid, params, sensor_map, motor_map) ==
    sid < 0 \/ ~validate_sensors_motors(params, sensor_map, motor_map)

\* Line 66 without its sign test.
ShouldStartSim_NoSignCheck(sid) == sid # None

\* Line 66
ShouldStartSim(sid) == sid # None /\ sid[1] >= 0

\* Lines 147-165, then line 66.
InitRecv ==
    /\ pc = "init_wait"
    /\ inflight' = << >>
    /\ UNCHANGED << config, fields_defined, sim_t, stop_requested,
                    sensor_value_history, motor_value_history,
                    debug_data_history, debug_enabled, site, locals, sent, n,
                    outcome, update_arg, lastResp, stop_at, activeAtFault,
                    closeCalls, first_close >>
    /\ \E resp \in InitResponses :
         /\ init_resp' = Some(resp)
         /\ IF ~resp.ok
            THEN /\ session_id' = Some(-1)
                 /\ UNCHANGED << sensor_name_map, motor_name_map, block_name_map,
                                 all_session_logs >>
                 /\ NoRaise
                 /\ pc' = IF ShouldStartSim(session_id') THEN "start_sim" ELSE "finally"
            ELSE
              LET got(f) == Decoded(InitFieldOrder, resp.bad, f)
                  sid == IF got("session_id") THEN Some(resp.session_id) ELSE session_id
                  mm == IF got("motor_ids") THEN resp.motor_ids ELSE motor_name_map
                  sm == IF got("sensor_ids") THEN resp.sensor_ids ELSE sensor_name_map
                  bm == IF got("block_ids") THEN resp.block_ids ELSE block_name_map
              IN /\ motor_name_map' = mm
                 /\ sensor_name_map' = sm
                 /\ block_name_map' = bm
                 /\ IF resp.bad # "none"
                    THEN /\ session_id' = sid
                         /\ UNCHANGED all_session_logs
                         /\ Raise(IF resp.bad = "json" THEN "JSONDecodeError"
                                  ELSE "ResponseFieldError")
                    ELSE /\ all_session_logs' =
                              process_session_logs(all_session_logs, resp.session_log)
                         /\ session_id' =
                              IF InitializationFailed(resp.session_id, client_params, sm, mm)
                              THEN Some(-1) ELSE sid
                         /\ pc' = IF ShouldStartSim(session_id')
                                  THEN "start_sim" ELSE "finally"
                         /\ NoRaise
    /\ init_sid' = IF pc' = "except" THEN None ELSE session_id'

\* ------------------------------------------------- __init__, lines 68-77

\* The guard of line 295 without its sign test.
SessionIsOpen_NoSignCheck(sid) == sid # None

\* Line 295: the guard of _close_session.
SessionIsOpen(sid) == sid # None /\ sid[1] >= 0

\* An except clause that catches everything.
IsInterrupt_CatchAll(kind) == TRUE

\* Line 68: except (KeyboardInterrupt, SystemExit).
IsInterrupt(kind) == kind \in {"KeyboardInterrupt", "SystemExit"}

\* Lines 68-73: the except clauses. An interrupt is printed and dropped; any
\* other exception is printed and _close_session() is called (line 73).
Handler ==
    /\ pc = "except"
    /\ IF IsInterrupt(pending)
       THEN /\ pending' = "none"
            /\ pc' = "finally"
       ELSE /\ pc' = "handler_close"
            /\ UNCHANGED pending
    /\ activeAtFault' = (fields_defined /\ SessionIsOpen(session_id))
    /\ UNCHANGED << config, fields, site, locals, inflight, sent, n, origFault,
                    faults, outcome, init_resp, init_sid, update_arg, lastResp,
                    stop_at, closeCalls, first_close >>

\* ------------------------------------------------ _start_sim, lines 167-202

\* Line 171
ZeroMotorDict(motor_map) == [motor_name \in DOMAIN motor_map |-> 0]

\* Lines 169-172: sim_started_notification() is called, then the first motor
\* command is all zeros.
StartSim ==
    /\ pc = "start_sim"
    /\ n' = [n EXCEPT !.started = @ + 1]
    /\ UNCHANGED << config, fields, site, named_sensor_dict, inflight, sent,
                    outcome, ghost, closeCalls, first_close >>
    /\ \E fault \in CallbackFaults :
         IF fault # "none"
         THEN /\ Raise(fault)
              /\ UNCHANGED next_motor_dict
         ELSE /\ next_motor_dict' = ZeroMotorDict(motor_name_map)
              /\ pc' = "loop"
              /\ NoRaise

\* A loop that never looks at the stop flag.
LoopContinues_IgnoresStop(stop) == TRUE

\* Line 173: the loop's condition.
LoopContinues(stop) == ~stop

\* Line 173, the loop ends: _start_sim returns and the finally clause runs.
LoopExit ==
    /\ pc = "loop"
    /\ ~LoopContinues(stop_requested)
    /\ pc' = "finally"
    /\ n' = [n EXCEPT !.loopExits = @ + 1]
    /\ UNCHANGED << config, fields, site, pending, locals, inflight, sent,
                    origFault, faults, outcome, ghost, closeCalls, first_close >>

\* Line 178: sensor names to the server's ids.
TranslateSensors(named, sensor_map) ==
    [ id \in { sensor_map[key] : key \in DOMAIN named } |->
        named[CHOOSE key \in DOMAIN named : sensor_map[key] = id] ]

\* The appends of lines 174 and 177 made only when debugging is enabled.
RecordValue_DebugOnly(history, value) ==
    IF debug_enabled THEN Append(history, value) ELSE history

\* Lines 174 and 177: history.append(value), whatever enable_debug is.
RecordValue(history, value) == Append(history, value)

\* Lines 173-178: the motor command is recorded, update() is called with it,
\* its result is recorded and translated (a KeyError for a name that is not in
\* the sensor map; the model's KeyErrors carry the dict whose lookup failed).
UpdateCallback ==
    /\ pc = "loop"
    /\ LoopContinues(stop_requested)
    /\ n.updateCalls < MaxTicks
    /\ motor_value_history' = RecordValue(motor_value_history, next_motor_dict)
    /\ update_arg' = next_motor_dict
    /\ n' = [n EXCEPT !.updateCalls = @ + 1]
    /\ UNCHANGED << config, fields_defined, sim_t, session_id, sensor_name_map,
                    motor_name_map, block_name_map, stop_requested,
                    all_session_logs, debug_data_history, debug_enabled, site,
                    next_motor_dict, inflight, sent, outcome, init_resp,
                    init_sid, lastResp, stop_at, activeAtFault, closeCalls,
                    first_close >>
    /\ \E fault \in CallbackFaults, keys \in SensorKeyChoices :
       \E named \in [keys -> SensorValues] :
         IF fault # "none"
         THEN /\ Raise(fault)
              /\ UNCHANGED << sensor_value_history, named_sensor_dict >>
         ELSE /\ sensor_value_history' = RecordValue(sensor_value_history, named)
              /\ named_sensor_dict' = named
              /\ IF keys \subseteq DOMAIN sensor_name_map
                 THEN /\ pc' = "upd_send"
                      /\ NoRaise
                 ELSE Raise("KeyError:sensor_name_map")

\* Lines 180-188: the /updateSim request is built and posted.
SendUpdate ==
    /\ pc = "upd_send"
    /\ UNCHANGED << config, fields, site, locals, n, outcome, ghost,
                    closeCalls, first_close >>
    /\ \E fault \in LoopTransportFaults :
         IF fault # "none"
         THEN /\ Raise(fault)
              /\ UNCHANGED << inflight, sent >>
         ELSE LET req == Request("/updateSim", session_id,
                                 TranslateSensors(named_sensor_dict, sensor_name_map))
              IN /\ inflight' = Append(inflight, req)
                 /\ sent' = Append(sent, req)
                 /\ pc' = AfterPost("upd_wait")
                 /\ NoRaise

\* Line 195 iterating over the response instead of the motor map: a motor the
\* response omits gets no entry.
NextMotorDict_OnlyReturned(motor_dict, motor_map) ==
    [ motor_name \in { m \in DOMAIN motor_map :
                         \E key \in DOMAIN motor_dict : int(key) = motor_map[m] } |->
        motor_dict[CHOOSE key \in DOMAIN motor_dict : int(key) = motor_map[motor_name]] ]

\* Lines 194-195: the string keys become ints, then every motor of the motor
\* map gets the value of its id, 0.0 when the response has none.
NextMotorDict(motor_dict, motor_map) ==
    LET int_key_response_dict ==
            [ i \in { int(key) : key \in DOMAIN motor_dict } |->
                motor_dict[CHOOSE key \in DOMAIN motor_dict : int(key) = i] ]
    IN [ motor_name \in DOMAIN motor_map |->
           safe_dict_get(int_key_response_dict, motor_map[motor_name], 0) ]

\* The fields of an /updateSim response in the order lines 191-199 read them.
UpdateFieldOrder == << "json", "motor_dict", "session_log", "debugging_data" >>

\* debugging_data of an /updateSim response: two global numbers and three
\* dicts keyed by str(block id).
DebugPayloadChoices ==
    { [ global_stability_rate |-> 1, global_energy_estimate |-> 2,
        block_stability_rates |-> ("1" :> 5) @@ ("3" :> 9),
        block_energy_estimates |-> ("3" :> 8),
        block_stable_times |-> ("3" :> 7) ],
      [ global_stability_rate |-> 1, global_energy_estimate |-> 2,
        block_stability_rates |-> ("1" :> 5),
        block_energy_estimates |-> ("3" :> 8),
        block_stable_times |-> ("3" :> 7) ] }

\* The /updateSim responses: the ok ones, and the non-ok ones, whose body is
\* no JSON, lacks a field, or is a whole body all the same.
UpdateResponses ==
    [ ok : {TRUE}, bad : {"none", "json", "debugging_data"},
      motor_dict : MotorDictChoices, session_log : {<< "msg" >>},
      debugging_data : DebugPayloadChoices ]
    \cup
    [ ok : {FALSE}, bad : {"none", "json", "motor_dict"},
      motor_dict : {("0" :> 4) @@ ("2" :> -3)}, session_log : {<< "msg" >>},
      debugging_data : DebugPayloadChoices ]

\* The re-keying of lines 222-230 left out: the dict stays keyed by block id.
NamedBlocks_KeyedById(unmapped, block_map) ==
    [ key \in { str(block_map[name]) : name \in DOMAIN block_map } |-> unmapped[key] ]

\* Lines 222-230: one block-indexed dict re-keyed by block name.
NamedBlocks(unmapped, block_map) ==
    [ name \in DOMAIN block_map |-> unmapped[str(block_map[name])] ]

\* Lines 223, 226, 229 raise a KeyError when a block's id is not in a dict.
BlockLookupFails(debugging_data, block_map) ==
    \E name \in DOMAIN block_map :
       \/ str(block_map[name]) \notin DOMAIN debugging_data.block_stability_rates
       \/ str(block_map[name]) \notin DOMAIN debugging_data.block_energy_estimates
       \/ str(block_map[name]) \notin DOMAIN debugging_data.block_stable_times

\* Lines 232-238
DebugRecord(debugging_data, block_map) ==
    [ global_stability_rate |-> debugging_data.global_stability_rate,
      global_energy_estimate |-> debugging_data.global_energy_estimate,
      block_stability_rates |->
          NamedBlocks(debugging_data.block_stability_rates, block_map),
      block_energy_estimates |->
          NamedBlocks(debugging_data.block_energy_estimates, block_map),
      block_stable_times |->
          NamedBlocks(debugging_data.block_stable_times, block_map) ]

\* The tick counter left as it was.
NextTick_NotCounted(t) == t

\* Line 202: self.sim_t += 1.
NextTick(t) == t + 1

\* Lines 189-202: the response is read. A non-ok response is printed and then
\* decoded like any other. _process_debugging_data (lines 212-240) runs inside.
RecvUpdate ==
    /\ pc = "upd_wait"
    /\ inflight' = << >>
    /\ UNCHANGED << config, fields_defined, session_id, sensor_name_map,
                    motor_name_map, block_name_map, stop_requested,
                    sensor_value_history, motor_value_history, debug_enabled,
                    site, named_sensor_dict, sent, outcome, init_resp, init_sid,
                    update_arg, stop_at, activeAtFault, closeCalls, first_close >>
    /\ \E resp \in UpdateResponses, debugFault \in NotificationFaults :
         LET got(f) == Decoded(UpdateFieldOrder, resp.bad, f)
             relay == resp.bad = "none" /\ debug_enabled
             lookupFails == relay /\ BlockLookupFails(resp.debugging_data, block_name_map)
             notified == relay /\ ~lookupFails
             fault == IF resp.bad = "json" THEN "JSONDecodeError"
                      ELSE IF resp.bad # "none" THEN "ResponseFieldError"
                      ELSE IF lookupFails THEN "KeyError:debugging_data"
                      ELSE IF notified THEN debugFault
                      ELSE "none"
         IN /\ lastResp' = [ ok |-> resp.ok, bad |-> resp.bad,
                             motor_dict |-> resp.motor_dict, tick |-> n.updateCalls,
                             debugging_data |-> IF relay THEN Some(resp.debugging_data)
                                                ELSE None ]
            /\ next_motor_dict' =
                 IF got("motor_dict") THEN NextMotorDict(resp.motor_dict, motor_name_map)
                 ELSE next_motor_dict
            /\ all_session_logs' =
                 IF got("session_log")
                 THEN process_session_logs(all_session_logs, resp.session_log)
                 ELSE all_session_logs
            /\ debug_data_history' =
                 IF notified
                 THEN Append(debug_data_history,
                             DebugRecord(resp.debugging_data, block_name_map))
                 ELSE debug_data_history
            /\ IF fault # "none"
               THEN /\ Raise(fault)
                    /\ n' = [n EXCEPT !.debug = @ + (IF notified THEN 1 ELSE 0),
                                      !.nonOk = IF resp.ok THEN @ ELSE 1]
                    /\ UNCHANGED sim_t
               ELSE /\ sim_t' = NextTick(sim_t)
                    /\ n' = [n EXCEPT !.debug = @ + (IF notified THEN 1 ELSE 0),
                                      !.processed = @ + 1,
                                      !.nonOk = IF resp.ok THEN @ ELSE 1]
                    /\ pc' = "loop"
                    /\ NoRaise

\* Lines 325-329. The embedder calls it from a callback or from another thread,
\* while _start_sim runs.
StopSim ==
    /\ pc \in {"loop", "upd_send", "upd_wait"}
    /\ stop_requested' = TRUE
    /\ stop_at' = IF stop_at = None
                  THEN Some([ inTick |-> pc # "loop", tick |-> n.updateCalls,
                              requests |-> Count("/updateSim") ])
                  ELSE stop_at
    /\ UNCHANGED << config, fields_defined, sim_t, session_id, sensor_name_map,
                    motor_name_map, block_name_map, all_session_logs,
                    sensor_value_history, motor_value_history,
                    debug_data_history, debug_enabled, pc, site, pending, locals,
                    inflight, sent, n, origFault, faults, outcome, init_resp,
                    init_sid, update_arg, lastResp, activeAtFault, closeCalls,
                    first_close >>

\* ------------------------------------------------- _end_sim, lines 242-290

\* The names of a map in the order they are iterated.
RECURSIVE NamesIn(_, _)
NamesIn(order, map) ==
    IF order = << >> THEN << >>
    ELSE (IF Head(order) \in DOMAIN map THEN << Head(order) >> ELSE << >>)
         \o NamesIn(Tail(order), map)

\* Lines 244-250 and the np.min() that follows (256, 264): "none" when the
\* name's statistics can be computed. An empty history, or a first entry
\* without the name, gives [] and np.min([]) raises ValueError; a later entry
\* without the name raises KeyError at line 246.
HistoryFault(list_of_named_dicts, name) ==
    IF Len(list_of_named_dicts) > 0 /\ name \in DOMAIN list_of_named_dicts[1]
    THEN IF \A i \in 1..Len(list_of_named_dicts) : name \in DOMAIN list_of_named_dicts[i]
         THEN "none" ELSE "KeyError:history"
    ELSE "ValueError"

RECURSIVE StatsFault(_, _)
StatsFault(names, history) ==
    IF names = << >> THEN "none"
    ELSE LET f == HistoryFault(history, Head(names))
         IN IF f # "none" THEN f ELSE StatsFault(Tail(names), history)

\* Lines 251-278: the summary. The exception it ends with, "none" when it
\* prints to its last line (the printed statistics themselves are left out). Line 271 raises IndexError on an empty debug history.
SummaryFault ==
    LET m == StatsFault(NamesIn(NameOrder, motor_name_map), motor_value_history)
        s == StatsFault(NamesIn(NameOrder, sensor_name_map), sensor_value_history)
    IN IF m # "none" THEN m
       ELSE IF s # "none" THEN s
       ELSE IF debug_enabled /\ debug_data_history = << >> THEN "IndexError"
       ELSE "none"

\* Lines 282-290
EndSimReset ==
    /\ sim_t' = 0
    /\ session_id' = None
    /\ sensor_name_map' = EmptyMap
    /\ motor_name_map' = EmptyMap
    /\ stop_requested' = FALSE
    /\ all_session_logs' = << >>
    /\ sensor_value_history' = << >>
    /\ motor_value_history' = << >>
    /\ debug_data_history' = << >>
    /\ UNCHANGED << fields_defined, block_name_map, debug_enabled >>

\* ---------------------------------------------- _close_session, lines 292-307

\* What a _close_session() call leaves behind, for comparing two calls.
Snapshot ==
    [ fields |-> fields, shutdowns |-> Count("/shutdownSession"),
      summaries |-> n.summaryStarted, ended |-> n.ended ]

\* A _close_session() call made at 'from' (line 73 or line 77) ends, with the
\* exception 'kind' or, for "none", by returning. After line 73 comes the raise
\* of line 75 and then the finally clause; an exception raised inside the
\* handler replaces the one being handled. After line 77 the constructor ends.
EndClose(from, kind, injected) ==
    /\ faults' = faults + (IF injected THEN 1 ELSE 0)
    /\ pending' = IF kind = "none" THEN pending ELSE kind
    /\ pc' = IF from = "handler" THEN "finally" ELSE "done"
    /\ outcome' = IF from = "handler" THEN outcome
                  ELSE IF pending' = "none" THEN "returned" ELSE "raised"

\* Lines 295-299: _close_session() is called. Reading self.session_id raises
\* AttributeError when lines 51-64 never ran.
CloseSend ==
    /\ pc \in {"handler_close", "finally"}
    /\ closeCalls' = closeCalls + 1
    /\ site' = IF pc = "handler_close" THEN "handler" ELSE "finally"
    /\ UNCHANGED << config, fields, locals, n, origFault, ghost >>
    /\ IF ~fields_defined
       THEN /\ EndClose(site', "AttributeError", FALSE)
            /\ UNCHANGED << inflight, sent >>
       ELSE IF ~SessionIsOpen(session_id)
       THEN /\ EndClose(site', "none", FALSE)
            /\ UNCHANGED << inflight, sent >>
       ELSE \E fault \in LoopTransportFaults :
              IF fault # "none"
              THEN /\ EndClose(site', fault, TRUE)
                   /\ UNCHANGED << inflight, sent >>
              ELSE LET req == Request("/shutdownSession", session_id, EmptyMap)
                   IN /\ inflight' = Append(inflight, req)
                      /\ sent' = Append(sent, req)
                      /\ pc' = AfterPost("shut_wait")
                      /\ UNCHANGED << pending, outcome, faults >>
    /\ first_close' = IF closeCalls' = 1 /\ pc' # "shut_wait"
                      THEN Some(Snapshot') ELSE first_close

ShutdownResponses ==
    [ ok : {TRUE}, bad : {"none", "json"}, session_log : {<< "msg" >>} ]
    \cup [ ok : {FALSE}, bad : {"none"}, session_log : {<< >>} ]

\* Lines 300-307: the response is read, then _end_sim() (lines 242-290) prints
\* the summary, calls sim_ended_notification() and resets the fields.
CloseRecv ==
    /\ pc = "shut_wait"
    /\ inflight' = << >>
    /\ UNCHANGED << config, site, locals, sent, origFault, ghost, closeCalls >>
    /\ \E resp \in ShutdownResponses, endedFault \in NotificationFaults :
         LET parseFault == IF resp.bad = "json" THEN "JSONDecodeError"
                           ELSE IF resp.bad # "none" THEN "ResponseFieldError"
                           ELSE "none"
             summaryFault == SummaryFault
             summaryStarted == parseFault = "none"
             summaryDone == summaryStarted /\ summaryFault = "none"
             reset == summaryDone /\ endedFault = "none"
             fault == IF parseFault # "none" THEN parseFault
                      ELSE IF summaryFault # "none" THEN summaryFault
                      ELSE endedFault
         IN /\ n' = [n EXCEPT !.summaryStarted = @ + (IF summaryStarted THEN 1 ELSE 0),
                              !.summary = @ + (IF summaryDone THEN 1 ELSE 0),
                              !.ended = @ + (IF summaryDone THEN 1 ELSE 0),
                              !.reset = @ + (IF reset THEN 1 ELSE 0),
                              !.nonOk = IF resp.ok THEN @ ELSE 1]
            /\ IF reset
               THEN EndSimReset
               ELSE /\ all_session_logs' =
                         IF resp.ok /\ parseFault = "none"
                         THEN process_session_logs(all_session_logs, resp.session_log)
                         ELSE all_session_logs
                    /\ UNCHANGED << fields_defined, sim_t, session_id,
                                    sensor_name_map, motor_name_map, block_name_map,
                                    stop_requested, sensor_value_history,
                                    motor_value_history, debug_data_history,
                                    debug_enabled >>
            /\ EndClose(site, fault,
                        parseFault # "none" \/ (summaryDone /\ endedFault # "none"))
    /\ first_close' = IF closeCalls = 1 THEN Some(Snapshot') ELSE first_close

Next ==
    \/ Construct
    \/ InitSend
    \/ InitRecv
    \/ StartSim
    \/ LoopExit
    \/ UpdateCallback
    \/ SendUpdate
    \/ RecvUpdate
    \/ StopSim
    \/ Handler
    \/ CloseSend
    \/ CloseRecv

Spec == Init /\ [][Next]_vars
\* ------------------------------------------------------------------ claims

\* C1: when _initialize_session() leaves a negative session id (non-ok
\* response, negative id from the server, or a count mismatch), the loop never
\* runs: sim_started_notification() and update() are not called and no
\* /updateSim request is sent.
C1_NoLoopAfterFailedInit ==
    (init_sid # None /\ init_sid[1] < 0) =>
        /\ n.started = 0
        /\ n.updateCalls = 0
        /\ Count("/updateSim") = 0

\* The server returned a usable id, the counts did not match, and the
\* constructor has returned.
C1_Witness ==
    /\ init_sid = Some(-1)
    /\ init_resp # None /\ init_resp[1].ok /\ init_resp[1].session_id >= 0
    /\ pc = "done" /\ outcome = "returned"

\* C2: an exception other than an interrupt reaches the embedder as it was
\* raised, and by then an open session has been shut down, summarised and
\* reset. Stated for the runs whose only fault is one raised after
\* _initialize_session() returned. (Violated: the code does not do this.)
C2_FaultClosesSessionThenReraised ==
    (/\ outcome = "raised"
     /\ origFault \notin {"none", "KeyboardInterrupt"}
     /\ init_sid # None
     /\ faults = 1) =>
        /\ pending = origFault
        /\ activeAtFault =>
             /\ Count("/shutdownSession") >= 1
             /\ n.summary >= 1
             /\ n.reset >= 1
             /\ session_id = None

\* C3: an interrupt raised inside update() while a session is open, the first
\* call included, is swallowed after cleanup: the session is shut down and
\* reset and the constructor returns. Stated for the runs whose only fault is
\* the interrupt. (Violated.)
C3_InterruptSwallowedAfterCleanup ==
    (/\ pc = "done"
     /\ origFault = "KeyboardInterrupt"
     /\ activeAtFault
     /\ n.updateCalls >= 1
     /\ faults = 1) =>
        /\ outcome = "returned"
        /\ Count("/shutdownSession") = 1
        /\ n.reset = 1
        /\ session_id = None

\* C4: a second _close_session() call in a row changes nothing the first one
\* left: the same fields, no further request, summary or callback. Stated for
\* the sessions whose initialisation returned and where the transport, the
\* server and sim_ended_notification() put in no fault of their own. (Violated.)
C4_CloseIdempotent ==
    (closeCalls = 2 /\ init_sid # None /\ faults <= 1) => Snapshot = first_close[1]

\* C5: after a non-ok /updateSim response the tick completes and the next motor
\* command is 0.0 for every motor. (Violated.)
C5_NonOkUpdateDegradesToZero ==
    (lastResp.tick = n.updateCalls /\ ~lastResp.ok /\ pc \in {"loop", "except"}) =>
        /\ pc = "loop"
        /\ n.processed = lastResp.tick
        /\ \A m \in DOMAIN next_motor_dict : next_motor_dict[m] = 0

\* C6: ticks are strictly sequential: at most one request is in flight; an
\* /updateSim request is sent only when every earlier one has been fully
\* processed; none is sent while /initSession is unanswered, and none after a
\* /shutdownSession request.
C6_TicksStrictlySequential ==
    /\ Len(inflight) <= 1
    /\ Count("/updateSim") <= n.processed + 1
    /\ (Count("/updateSim") = n.processed + 1 /\ pc = "upd_wait") => Len(inflight) = 1
    /\ Count("/updateSim") > 0 =>
         /\ init_resp # None
         /\ sent[1].path = "/initSession"
    /\ \A i, j \in 1..Len(sent) :
         (i < j /\ sent[i].path = "/shutdownSession") => sent[j].path # "/updateSim"

\* Two ticks were run and the session was shut down.
C6_Witness ==
    /\ Count("/updateSim") = 2
    /\ n.processed = 2
    /\ Count("/shutdownSession") = 1
    /\ pc = "done"

\* C7: when /initSession is answered ok and decoded, a sensor or motor map
\* whose size differs from the number of declared names (a list of N names
\* counting N) forces session_id to -1; with matching sizes a non-negative id
\* is kept.
C7_CountMismatchFailsInit ==
    (init_sid # None /\ init_resp[1].ok) =>
        LET r == init_resp[1]
            declared(decls) ==
                Cardinality(UNION { { << i, j >> : j \in 1..Len(decls[i].names) } :
                                    i \in 1..Len(decls) })
            mismatch ==
                \/ Cardinality(DOMAIN r.sensor_ids) # declared(client_params.sensors)
                \/ Cardinality(DOMAIN r.motor_ids) # declared(client_params.motors)
        IN IF mismatch THEN init_sid = Some(-1)
           ELSE r.session_id >= 0 => init_sid = Some(r.session_id)

\* One list entry of two motor names, one motor id returned, a usable id: failed.
C7_Witness ==
    /\ init_sid = Some(-1)
    /\ init_resp[1].ok /\ init_resp[1].session_id >= 0
    /\ client_params.motors = << Multiple(<< "force", "torque" >>) >>
    /\ Cardinality(DOMAIN init_resp[1].motor_ids) = 1
    /\ Cardinality(DOMAIN init_resp[1].sensor_ids) = 1

\* C8: the motor command update() gets in tick n+1 has exactly the motor map's
\* names, each with the value the ok response of tick n gave for its id, 0.0
\* when the response has no such id; other ids of the response are ignored.
C8_NextCommandFromResponse ==
    (n.updateCalls >= 2 /\ lastResp.tick = n.updateCalls - 1 /\ lastResp.ok) =>
        LET motor_map == init_resp[1].motor_ids
            md == lastResp.motor_dict
        IN /\ DOMAIN update_arg = DOMAIN motor_map
           /\ \A name \in DOMAIN motor_map :
                \/ \E key \in DOMAIN md :
                      int(key) = motor_map[name] /\ update_arg[name] = md[key]
                \/ /\ \A key \in DOMAIN md : int(key) # motor_map[name]
                   /\ update_arg[name] = 0

\* Tick 1 answered {"0": -0.3, "7": 0.4} for motors force (id 0) and torque
\* (id 2): tick 2's update() got force -0.3 and torque 0.0.
C8_Witness ==
    /\ n.updateCalls = 2
    /\ lastResp.tick = 1 /\ lastResp.ok
    /\ lastResp.motor_dict = ("0" :> -3) @@ ("7" :> 4)
    /\ update_arg = ("force" :> -3) @@ ("torque" :> 0)

\* C9: a stop request is seen only at the top of the loop: after it, update()
\* is called in no later tick and no later tick sends a request; and when the
\* loop ends, the tick in which the stop was made has sent its request, had its
\* response processed and counted.
C9_StopSeenAtLoopTop ==
    stop_at # None =>
        /\ n.updateCalls = stop_at[1].tick
        /\ Count("/updateSim") <= stop_at[1].tick
        /\ n.loopExits = 1 =>
             /\ Count("/updateSim") = stop_at[1].tick
             /\ n.processed = stop_at[1].tick
             /\ closeCalls = 0 => sim_t = stop_at[1].tick

\* The stop was made in tick 1 before its request was sent; the request was
\* sent all the same and the loop ended after that tick.
C9_Witness ==
    /\ stop_at # None
    /\ stop_at[1].inTick /\ stop_at[1].tick = 1 /\ stop_at[1].requests = 0
    /\ n.loopExits = 1
    /\ Count("/updateSim") = 1
    /\ sim_t = 1

\* C10: once the close of an open session has completed, every session field
\* is in its initial empty state, the block id map included. Stated for the
\* runs without any fault. (Violated.)
C10_CloseResetsAllFields ==
    (n.reset >= 1 /\ faults = 0) =>
        /\ session_id = None
        /\ sim_t = 0
        /\ ~stop_requested
        /\ sensor_name_map = EmptyMap
        /\ motor_name_map = EmptyMap
        /\ block_name_map = EmptyMap
        /\ all_session_logs = << >>
        /\ sensor_value_history = << >>
        /\ motor_value_history = << >>
        /\ debug_data_history = << >>

\* C11: _close_session() called for a session that was never opened (the id is
\* still None or was forced to -1, or the fields were never set) sends no
\* request, runs no summary, calls no sim_ended_notification() and changes no
\* field.
C11_CloseOfUnopenedSessionIsNoOp ==
    [][(/\ pc \in {"handler_close", "finally"}
        /\ (~fields_defined \/ session_id = None \/ session_id[1] < 0)) =>
            /\ fields' = fields
            /\ sent' = sent
            /\ inflight' = inflight
            /\ n' = n]_vars

\* Initialisation was answered and failed (-1), _close_session() was called
\* and the constructor ended without any /shutdownSession request.
C11_Witness ==
    /\ init_sid = Some(-1)
    /\ closeCalls >= 1
    /\ pc = "done"
    /\ Count("/shutdownSession") = 0
    /\ n.summaryStarted = 0 /\ n.ended = 0

\* C12 as stated: with debugging disabled the motor and sensor value histories
\* stay empty. (Violated.)
C12_HistoriesEmptyWithoutDebug ==
    ~debug_enabled => (motor_value_history = << >> /\ sensor_value_history = << >>)

\* C12, amended: every tick records its motor command and its sensor values,
\* with debugging enabled or not: until the fields are reset the motor history
\* has one entry per update() call and the sensor history one per update()
\* call that returned.
C12_HistoriesRecordedEveryTick ==
    n.reset = 0 =>
        /\ Len(motor_value_history) = n.updateCalls
        /\ pc \in {"loop", "upd_send", "upd_wait"} =>
             Len(sensor_value_history) = n.updateCalls
        /\ Len(sensor_value_history) \in {n.updateCalls - 1, n.updateCalls}

\* Two ticks were run with debugging disabled and both histories have two
\* entries.
C12_Witness ==
    /\ fields_defined /\ ~debug_enabled
    /\ init_sid # None /\ ~client_params.enable_debug
    /\ n.updateCalls = 2 /\ n.reset = 0
    /\ Len(motor_value_history) = 2
    /\ Len(sensor_value_history) = 2

\* C13: with debugging enabled every fully processed /updateSim response has
\* appended exactly one record to the debug data history and called
\* debug_data_received_notification() once; the record's three block dicts are
\* keyed by block name, each name with the value the payload has under that
\* block's id, and the two global values are the payload's. With debugging
\* disabled no record is appended and the callback is never called.
C13_DebugRelayOnlyWhenEnabled ==
    n.reset = 0 =>
        /\ Len(debug_data_history) = n.debug
        /\ ~debug_enabled => n.debug = 0
        /\ debug_enabled =>
             /\ n.debug \in {n.processed, n.processed + 1}
             /\ pc = "loop" => n.debug = n.processed
        /\ (/\ debug_enabled
            /\ lastResp.debugging_data # None
            /\ Len(debug_data_history) = lastResp.tick) =>
               LET rec == debug_data_history[Len(debug_data_history)]
                   payload == lastResp.debugging_data[1]
                   renamed(field) ==
                       /\ DOMAIN rec[field] = DOMAIN block_name_map
                       /\ \A name \in DOMAIN block_name_map :
                            \E key \in DOMAIN payload[field] :
                               /\ int(key) = block_name_map[name]
                               /\ rec[field][name] = payload[field][key]
               IN /\ rec.global_stability_rate = payload.global_stability_rate
                  /\ rec.global_energy_estimate = payload.global_energy_estimate
                  /\ renamed("block_stability_rates")
                  /\ renamed("block_energy_estimates")
                  /\ renamed("block_stable_times")

\* Debugging is enabled, block armA has id 3, one tick was fully processed and
\* its record gives armA the payload's values for "3".
C13_Witness ==
    /\ debug_enabled /\ n.reset = 0
    /\ block_name_map = ("armA" :> 3)
    /\ n.processed = 1 /\ n.debug = 1
    /\ debug_data_history[1].block_stability_rates = ("armA" :> 9)
    /\ debug_data_history[1].block_stable_times = ("armA" :> 7)

\* C14: when the parameters' version is missing or not the supported one, or
\* no API key is given, the constructor sends no request and ends by raising
\* that version or credential error, not another fault raised while cleaning
\* up. (Violated.)
C14_ConfigErrorSurfaced ==
    (pc = "done" /\ origFault \in {"VersionAssertion", "ApiKeyAssertion"}) =>
        /\ sent = << >>
        /\ outcome = "raised"
        /\ pending = origFault

\* C15: when update() returns a sensor name that is not in the sensor map, the
\* tick fails with a KeyError before its /updateSim request: the tick sends no
\* request, the tick counter is not incremented, the loop is never entered
\* again and the constructor ends by raising.
C15_UnmappedSensorFailsBeforeRequest ==
    origFault = "KeyError:sensor_name_map" =>
        /\ Count("/updateSim") = n.updateCalls - 1
        /\ n.processed = n.updateCalls - 1
        /\ n.reset = 0 => sim_t = n.updateCalls - 1
        /\ n.loopExits = 0
        /\ pc \in {"except", "handler_close", "finally", "shut_wait", "done"}
        /\ pc = "done" => outcome = "raised"

\* The second tick's update() returned the name "bogus": one request was sent,
\* for the first tick, and the constructor has ended.
C15_Witness ==
    /\ origFault = "KeyError:sensor_name_map"
    /\ n.updateCalls = 2
    /\ Len(sensor_value_history) = 2
    /\ DOMAIN sensor_value_history[2] = {"bogus"}
    /\ Count("/updateSim") = 1
    /\ pc = "done"

\* C16: a run in which initialisation succeeded, a stop was requested, no
\* callback or request raised and every response was ok ends with the session
\* closed, after these events in this order: /initSession,
\* sim_started_notification(), one or more ticks, /shutdownSession, the
\* summary, sim_ended_notification(), the reset of the fields. Stated at the
\* end of the constructor, after which nothing more happens. (Violated.)
C16_CleanRunEndsClosed ==
    (/\ pc = "done"
     /\ init_sid # None /\ init_sid[1] >= 0
     /\ stop_at # None
     /\ faults = 0 /\ n.nonOk = 0) =>
        /\ outcome = "returned"
        /\ sent[1].path = "/initSession"
        /\ n.started = 1
        /\ n.processed >= 1
        /\ Count("/updateSim") = n.processed
        /\ Count("/shutdownSession") = 1
        /\ sent[Len(sent)].path = "/shutdownSession"
        /\ n.summary = 1 /\ n.ended = 1 /\ n.reset = 1
        /\ session_id = None

\* C17: a session whose initialisation succeeded gets at most one
\* /shutdownSession request and at most one sim_ended_notification() call,
\* whichever way the constructor is left, _close_session() being called by
\* the handler and again by the finally clause. Stated for the runs in which
\* at most one fault came from outside _close_session(). (Violated.)
C17_AtMostOneShutdownAndEnded ==
    (init_sid # None /\ init_sid[1] >= 0 /\ faults <= 1) =>
        /\ Count("/shutdownSession") <= 1
        /\ n.ended <= 1

\* C18: while the session is active the tick counter never decreases and goes
\* up by exactly one per fully processed response; at the top of every loop
\* iteration it equals the number of /updateSim requests sent and the lengths
\* of the motor and sensor value histories; and the motor history is never
\* more than one entry longer than the sensor history.
C18_TickCounterInvariants ==
    /\ [](fields_defined /\ n.reset = 0 =>
             /\ sim_t = n.processed
             /\ pc = "loop" =>
                  /\ sim_t = Count("/updateSim")
                  /\ sim_t = Len(motor_value_history)
                  /\ sim_t = Len(sensor_value_history)
             /\ Len(motor_value_history) - Len(sensor_value_history) \in {0, 1})
    /\ [][(fields_defined /\ n.reset' = 0) => sim_t' \in {sim_t, sim_t + 1}]_vars

\* The loop is at its top after two ticks, counter, requests and histories at 2.
C18_Witness ==
    /\ pc = "loop" /\ n.reset = 0
    /\ sim_t = 2
    /\ Count("/updateSim") = 2
    /\ Len(motor_value_history) = 2 /\ Len(sensor_value_history) = 2

====
